---- MODULE Spec2Model ----
(***************************************************************************)
(* A model of zappy's device-inventory validation core                     *)
(* (src/zappy/core/device_inventory.py): the field validators, the         *)
(* DeviceInventory object with its load_and_validate mutator, and the      *)
(* read-only projections.                                                  *)
(*                                                                         *)
(* Python strings are sequences of one-character strings, so that parsing, *)
(* formatting and the regular expressions are computed, not assumed.       *)
(***************************************************************************)
EXTENDS Integers, Sequences, FiniteSets, TLC

VARIABLES
    df,         \* DeviceInventory.df: NoDf (None) or a table [columns, rows]
    errors,     \* DeviceInventory.errors: sequence of error messages
    result,     \* the ValidationResult returned by the last load_and_validate
    lastInput,  \* the argument of the last load_and_validate call
    repeat,     \* TRUE iff the last call had the same argument as the one before
    arg,        \* the value handed to a field validator
    fn,         \* the field validator that was called on arg ("none": not yet)
    ret         \* what that call did: a returned boolean or a raised exception

vars == <<df, errors, result, lastInput, repeat, arg, fn, ret>>

(***************************************************************************)
(* Python strings and values                                               *)
(***************************************************************************)
Digits == <<"0","1","2","3","4","5","6","7","8","9">>
LowerLetters == <<"a","b","c","d","e","f","g","h","i","j","k","l","m","n","o","p","q","r","s","t","u","v","w","x","y","z">>
UpperLetters == <<"A","B","C","D","E","F","G","H","I","J","K","L","M","N","O","P","Q","R","S","T","U","V","W","X","Y","Z">>

IsDigit(c) == \E i \in DOMAIN Digits : Digits[i] = c
DigitVal(c) == (CHOOSE i \in DOMAIN Digits : Digits[i] = c) - 1
IsSpace(c) == c \in {" ", "\t", "\n", "\r"}

\* str.isascii() and str.isdigit(): non-empty, decimal digits only
IsDigitStr(s) == s # <<>> /\ \A i \in DOMAIN s : IsDigit(s[i])

\* int(s) for a string of decimal digits
RECURSIVE ToInt(_)
ToInt(s) == IF s = <<>> THEN 0
            ELSE ToInt(SubSeq(s, 1, Len(s) - 1)) * 10 + DigitVal(s[Len(s)])

\* str(n) for an integer
RECURSIVE FormatNat(_)
FormatNat(n) == IF n < 10 THEN <<Digits[n + 1]>>
                ELSE FormatNat(n \div 10) \o <<Digits[(n % 10) + 1]>>
FormatInt(n) == IF n < 0 THEN <<"-">> \o FormatNat(-n) ELSE FormatNat(n)

\* str.split(sep)
RECURSIVE Split(_, _)
Split(s, sep) ==
    IF \A i \in DOMAIN s : s[i] # sep THEN <<s>>
    ELSE LET i == CHOOSE k \in DOMAIN s : s[k] = sep /\ \A j \in 1..(k - 1) : s[j] # sep
         IN  <<SubSeq(s, 1, i - 1)>> \o Split(SubSeq(s, i + 1, Len(s)), sep)

\* sep.join(parts)
RECURSIVE Join(_, _)
Join(parts, sep) ==
    IF parts = <<>> THEN <<>>
    ELSE IF Len(parts) = 1 THEN parts[1]
    ELSE parts[1] \o sep \o Join(Tail(parts), sep)

\* str.strip()
RECURSIVE Strip(_)
Strip(s) == IF s = <<>> THEN s
            ELSE IF IsSpace(s[1]) THEN Strip(Tail(s))
            ELSE IF IsSpace(s[Len(s)]) THEN Strip(SubSeq(s, 1, Len(s) - 1))
            ELSE s

UpperChar(c) == IF \E i \in DOMAIN LowerLetters : LowerLetters[i] = c
                THEN UpperLetters[CHOOSE i \in DOMAIN LowerLetters : LowerLetters[i] = c]
                ELSE c
LowerChar(c) == IF \E i \in DOMAIN UpperLetters : UpperLetters[i] = c
                THEN LowerLetters[CHOOSE i \in DOMAIN UpperLetters : UpperLetters[i] = c]
                ELSE c
Upper(s) == [i \in DOMAIN s |-> UpperChar(s[i])]
Lower(s) == [i \in DOMAIN s |-> LowerChar(s[i])]

\* Python values: a str, an int, None, or the float NaN (pandas' missing cell)
PStr(s) == [t |-> "str", s |-> s, n |-> 0]
PInt(n) == [t |-> "int", s |-> <<>>, n |-> n]
PNone == [t |-> "none", s |-> <<>>, n |-> 0]
PNaN == [t |-> "nan", s |-> <<>>, n |-> 0]

\* str(v)
PyStr(v) == CASE v.t = "str" -> v.s
              [] v.t = "int" -> FormatInt(v.n)
              [] v.t = "none" -> <<"N","o","n","e">>
              [] OTHER -> <<"n","a","n">>

\* bool(v), as in "if not value"
Truthy(v) == CASE v.t = "str" -> v.s # <<>>
               [] v.t = "int" -> v.n # 0
               [] v.t = "none" -> FALSE
               [] OTHER -> TRUE

\* pd.isna(v) for a scalar
IsNa(v) == v.t \in {"none", "nan"}

\* What a call did: returned a boolean, or raised
Return(b) == [exc |-> "none", val |-> b]
Raise(e) == [exc |-> e, val |-> FALSE]
Holds(outcome) == outcome.exc = "none" /\ outcome.val

(***************************************************************************)
(* The standard library's ipaddress module, as far as the validators use   *)
(* it.  An address is its four octets.                                     *)
(***************************************************************************)
Pow2(k) == CASE k = 0 -> 1 [] k = 1 -> 2 [] k = 2 -> 4 [] k = 3 -> 8 [] k = 4 -> 16
             [] k = 5 -> 32 [] k = 6 -> 64 [] k = 7 -> 128 [] OTHER -> 256

\* IPv4Address._parse_octet succeeds
OctetOk(o) ==
    /\ IsDigitStr(o)
    /\ Len(o) <= 3
    /\ ~(Len(o) > 1 /\ o[1] = "0")
    /\ ToInt(o) <= 255

\* IPv4Address._ip_int_from_string: [ok, addr]
IpFromOctets(octets) ==
    IF Len(octets) = 4 /\ \A i \in 1..4 : OctetOk(octets[i])
    THEN [ok |-> TRUE, addr |-> [i \in 1..4 |-> ToInt(octets[i])]]
    ELSE [ok |-> FALSE, addr |-> <<0, 0, 0, 0>>]
IpFromString(s) == IpFromOctets(Split(s, "."))

\* ipaddress.IPv4Address(v): ok is FALSE where it raises AddressValueError.
\* An int is the address itself (negative ones are refused; the sampled ints
\* stay below 2^31); any other value is parsed from str(v).
IPv4Address(v) ==
    IF v.t = "int"
    THEN IF v.n >= 0
         THEN [ok |-> TRUE,
               addr |-> <<v.n \div 16777216, (v.n \div 65536) % 256,
                          (v.n \div 256) % 256, v.n % 256>>]
         ELSE [ok |-> FALSE, addr |-> <<0, 0, 0, 0>>]
    ELSE LET s == PyStr(v)
         IN  IF \E i \in DOMAIN s : s[i] = "/"
             THEN [ok |-> FALSE, addr |-> <<0, 0, 0, 0>>]
             ELSE IpFromString(s)

Net(a, b, c, d, p) == [base |-> <<a, b, c, d>>, prefix |-> p]

\* "address in network": the first prefix bits agree
InNet(addr, net) ==
    \A i \in 1..4 :
        LET covered == IF net.prefix >= 8 * i THEN 8
                       ELSE IF net.prefix <= 8 * (i - 1) THEN 0
                       ELSE net.prefix - 8 * (i - 1)
        IN  addr[i] \div Pow2(8 - covered) = net.base[i] \div Pow2(8 - covered)

\* ipaddress._IPv4Constants._private_networks
PrivateNetworks == {
    Net(0, 0, 0, 0, 8), Net(10, 0, 0, 0, 8), Net(127, 0, 0, 0, 8),
    Net(169, 254, 0, 0, 16), Net(172, 16, 0, 0, 12), Net(192, 0, 0, 0, 29),
    Net(192, 0, 0, 170, 31), Net(192, 0, 2, 0, 24), Net(192, 168, 0, 0, 16),
    Net(198, 18, 0, 0, 15), Net(198, 51, 100, 0, 24), Net(203, 0, 113, 0, 24),
    Net(240, 0, 0, 0, 4), Net(255, 255, 255, 255, 32) }

\* IPv4Address.is_private
is_private(addr) == \E net \in PrivateNetworks : InNet(addr, net)

\* IPv4Address.is_multicast
is_multicast(addr) == InNet(addr, Net(224, 0, 0, 0, 4))

\* the 32 bits of an address, most significant first
AddrBits(addr) ==
    [k \in 1..32 |-> (addr[((k - 1) \div 8) + 1] \div Pow2(7 - ((k - 1) % 8))) % 2]

\* _prefix_from_ip_int succeeds: the bits above the trailing zeros are all ones
ContiguousOnes(bits) ==
    LET zeros == IF \A k \in 1..32 : bits[k] = 0 THEN 32
                 ELSE 32 - (CHOOSE k \in 1..32 : bits[k] = 1 /\ \A j \in (k + 1)..32 : bits[j] = 0)
        prefixlen == 32 - zeros
    IN  \A k \in 1..prefixlen : bits[k] = 1

\* IPv4Network._make_netmask(arg) succeeds: a prefix length 0..32, a netmask,
\* or a hostmask
NetmaskOrHostmask(bits) ==
    ContiguousOnes(bits) \/ ContiguousOnes([k \in 1..32 |-> 1 - bits[k]])
MaskFromIp(ip) == ip.ok /\ NetmaskOrHostmask(AddrBits(ip.addr))
MakeNetmaskOk(s) ==
    IF IsDigitStr(s)
    THEN Len(s) <= 9 /\ ToInt(s) <= 32
    ELSE MaskFromIp(IpFromString(s))

\* ipaddress.IPv4Network("0.0.0.0/" + mask, strict=True) succeeds.  The
\* network address is 0.0.0.0 and has no host bits under any mask, so the
\* strict check never fails.
NetworkFromParts(parts) ==
    /\ Len(parts) = 2
    /\ IpFromString(parts[1]).ok
    /\ MakeNetmaskOk(parts[2])
IPv4NetworkOk(mask) ==
    NetworkFromParts(Split(<<"0",".","0",".","0",".","0","/">> \o mask, "/"))

(***************************************************************************)
(* Constants                                                               *)
(***************************************************************************)
DEVICE_TYPES == <<
    <<"A","u","d","i","o">>, <<"V","i","d","e","o">>,
    <<"A","u","d","i","o","v","i","s","u","a","l">>, <<"C","o","n","t","r","o","l">>,
    <<"I","n","t","e","r","c","o","m">>, <<"N","e","t","w","o","r","k","i","n","g">>,
    <<"S","e","c","u","r","i","t","y">>, <<"S","u","r","v","e","i","l","l","a","n","c","e">>,
    <<"A","c","c","e","s","s"," ","C","o","n","t","r","o","l">> >>

MULTICAST_LABELS == <<
    <<"A","u","d","i","o">>, <<"V","i","d","e","o">>, <<"A","U","X">>,
    <<"S","t","r","e","a","m","i","n","g">> >>

InList(x, list) == \E i \in DOMAIN list : list[i] = x

(***************************************************************************)
(* Field validators                                                        *)
(***************************************************************************)
\* re.fullmatch(r"^J\d{4}(-\d{2})?$", s)
MatchJobId(s) ==
    /\ Len(s) \in {5, 8}
    /\ s[1] = "J"
    /\ \A i \in 2..5 : IsDigit(s[i])
    /\ Len(s) = 8 => (s[6] = "-" /\ IsDigit(s[7]) /\ IsDigit(s[8]))

validate_job_id(value) ==
    IF ~Truthy(value) \/ value.t # "str" THEN Return(FALSE)
    ELSE Return(MatchJobId(Upper(Strip(value.s))))

\* "return ip_obj.is_private", "except AddressValueError: return False"
PrivateOrFalse(ip_obj) == IF ip_obj.ok THEN Return(is_private(ip_obj.addr)) ELSE Return(FALSE)
validate_ip(ip) == PrivateOrFalse(IPv4Address(ip))

validate_subnet_mask(mask) ==
    IF ~Truthy(mask) \/ mask.t # "str" THEN Return(FALSE)
    ELSE Return(IPv4NetworkOk(mask.s))

\* re.fullmatch(r"([0-9a-f]{2}:){5}[0-9a-f]{2}", s)
IsLowerHex(c) == IsDigit(c) \/ c \in {"a", "b", "c", "d", "e", "f"}
MatchMac(s) ==
    /\ Len(s) = 17
    /\ \A i \in 1..17 : IF i % 3 = 0 THEN s[i] = ":" ELSE IsLowerHex(s[i])

\* mac.lower() exists only on a str
validate_mac(mac) ==
    IF mac.t # "str" THEN Raise("AttributeError")
    ELSE Return(MatchMac(Lower(mac.s)))

\* "return ip_obj.is_multicast", "except AddressValueError: return False"
MulticastOrFalse(ip_obj) ==
    IF ip_obj.ok THEN Return(is_multicast(ip_obj.addr)) ELSE Return(FALSE)
validate_multicast_address(multicast) == MulticastOrFalse(IPv4Address(multicast))

validate_serial_number(val) ==
    IF IsNa(val) THEN Return(FALSE)
    ELSE Return(Strip(PyStr(val)) # <<>>)


\* device_inventory.py defines no validate_multicast_port (its module-level
\* functions are the six above), so the lookup the unit test makes,
\* "from zappy.core.device_inventory import validate_multicast_port", raises
\* ImportError whatever value was to be checked.
validate_multicast_port(value) == Raise("ImportError")

(***************************************************************************)
(* ValidationResult and DeviceInventory                                    *)
(***************************************************************************)
REQUIRED_COLUMNS == <<"job_id", "job_property", "device_name", "device_location",
                      "device_type", "ip_address", "mac_address", "subnet_mask",
                      "default_gateway", "serial_number">>

OPTIONAL_COLUMNS == <<"dns_1", "dns_2", "notes">>

ValidationResult(valid, errs) == [called |-> TRUE, valid |-> valid, errors |-> errs]
NoResult == [called |-> FALSE, valid |-> FALSE, errors |-> <<>>]

\* A pandas DataFrame with the default RangeIndex: ordered column names and
\* rows, each row a function from column name to cell.  NoDf is None.
DataFrame(columns, rows) == [present |-> TRUE, columns |-> columns, rows |-> rows]
NoDf == [present |-> FALSE, columns |-> <<>>, rows |-> <<>>]

\* Error messages, by their parts
ReadError == [kind |-> "read", row |-> 0, col |-> "", text |-> "Failed to read CSV", cols |-> <<>>]
MissingError(missing) ==
    [kind |-> "missing", row |-> 0, col |-> "", text |-> "Missing required columns", cols |-> missing]
RowError(n, col, text) == [kind |-> "row", row |-> n, col |-> col, text |-> text, cols |-> <<>>]

(***************************************************************************)
(* Inputs                                                                  *)
(***************************************************************************)
\* Rows per table
MaxRows == 2

\* "a.b.c.d" from four numbers
Dotted(q) == Join([i \in DOMAIN q |-> FormatInt(q[i])], <<".">>)

FirstOctets == {0, 8, 10, 11, 100, 127, 128, 169, 172, 192, 198, 203, 223, 224, 239, 240, 255, 256}
SecondOctets == {0, 15, 16, 31, 32, 51, 168, 254, 255}
ThirdOctets == {1, 2, 100, 113, 255}
FourthOctets == {0, 1, 255}

QuadSamples ==
    {PStr(Dotted(<<a, b, c, d>>)) :
        a \in FirstOctets, b \in SecondOctets, c \in ThirdOctets, d \in FourthOctets}

StringSamples == {PStr(s) : s \in {
      <<>>,
      <<"n","o","t",".","a","n",".","i","p">>,
      <<"1",".","2",".","3">>,
      <<"1",".","2",".","3",".","4",".","5">>,
      <<"0","1",".","2",".","3",".","4">>,
      <<"1",".","2",".","3",".","4"," ">>,
      <<"1",".",".","2",".","3">>,
      <<"1",".","2",".","3",".","1","0","0","0">>,
      <<"1","0",".","0",".","0",".","1","/","8">>,
      <<"J","1","0","0","1">>,
      <<"j","1","0","2","3","-","0","1">>,
      <<" ","J","2","0","2","3"," ">>,
      <<"J","1","2","3","4","5">>,
      <<"K","1","0","0","1">>,
      <<"J","1","2","-","3","4">>,
      <<"a","a",":","b","b",":","c","c",":","d","d",":","e","e",":","f","f">>,
      <<"A","A",":","B","B",":","C","C",":","D","D",":","E","E",":","F","F">>,
      <<"a","a",":","b","b",":","c","g",":","d","d",":","e","e",":","f","f">>,
      <<"A","A",":","C","C",":","D","D",":","E","E",":","F","F">>,
      <<"2","5","5",".","2","5","5",".","2","5","5",".","0">>,
      <<"2","5","5",".","2","5","5",".","1","9","6",".","0">>,
      <<"2","5","5",".","1",".","0",".","1">>,
      <<"0",".","0",".","0",".","2","5","5">>,
      <<"0",".","0",".","0",".","0">>,
      <<"1","2","8",".","0",".","0",".","0">>,
      <<"2","4">>,
      <<"3","3">>,
      <<"a","b","c">>,
      <<"1","0","2","5">>,
      <<"1","0","2","4">>,
      <<"6","5","0","0","0">>,
      <<"6","5","0","0","1">>,
      <<" ">>,
      <<"S","N","1","2","3">> }}

NonStringSamples ==
    {PNone, PNaN, PInt(0), PInt(5), PInt(0 - 1), PInt(167772161),
     PInt(1024), PInt(1025), PInt(65000), PInt(65001)}

\* The values handed to the field validators
ValidatorInputs == QuadSamples \cup StringSamples \cup NonStringSamples

Blank == PNaN

\* Rows as a CSV file gives them, over every column a header below may name
RowGood ==
    [job_id |-> PStr(<<"J","1","0","0","1">>), job_property |-> PStr(<<"H","o","t","e","l">>),
     device_name |-> PStr(<<"R","o","u","t","e","r">>), device_location |-> PStr(<<"S","e","r","v","e","r"," ","R","o","o","m">>),
     device_locations |-> PStr(<<"S","e","r","v","e","r"," ","R","o","o","m">>),
     device_type |-> PStr(<<"N","e","t","w","o","r","k","i","n","g">>), ip_address |-> PStr(Dotted(<<192, 168, 1, 1>>)),
     mac_address |-> PStr(<<"a","a",":","b","b",":","c","c",":","d","d",":","e","e",":","f","f">>),
     subnet_mask |-> PStr(Dotted(<<255, 255, 255, 0>>)),
     default_gateway |-> PStr(Dotted(<<192, 168, 1, 254>>)),
     serial_number |-> PStr(<<"S","N","1","2","3">>), notes |-> Blank,
     multicast_address_1 |-> Blank, multicast_port_1 |-> Blank]

\* well-formed in every required field; a multicast address with no port
RowMulticast ==
    [job_id |-> PStr(<<"j","1","0","2","3","-","0","1">>), job_property |-> PStr(<<"H","o","t","e","l">>),
     device_name |-> PStr(<<" ">>  \o <<"R","o","u","t","e","r">>), device_location |-> PStr(<<"S","e","r","v","e","r"," ","R","o","o","m">> \o <<" ">>),
     device_locations |-> PStr(<<"S","e","r","v","e","r"," ","R","o","o","m">>),
     device_type |-> PStr(<<"A","u","d","i","o">>), ip_address |-> PStr(Dotted(<<10, 0, 0, 50>>)),
     mac_address |-> PStr(<<"0","0",":","1","A",":","2","B",":","3","C",":","4","D",":","5","E">>),
     subnet_mask |-> PStr(Dotted(<<255, 255, 0, 0>>)),
     default_gateway |-> PStr(Dotted(<<10, 0, 0, 1>>)),
     serial_number |-> PStr(<<"S","N","1","2","3">>), notes |-> PStr(<<"H","o","t","e","l">>),
     multicast_address_1 |-> PStr(Dotted(<<239, 1, 1, 1>>)), multicast_port_1 |-> Blank]

\* blank and malformed fields
RowBad ==
    [job_id |-> Blank, job_property |-> PStr(<<"H","o","t","e","l">>),
     device_name |-> Blank, device_location |-> PStr(<<"S","e","r","v","e","r"," ","R","o","o","m">>),
     device_locations |-> PStr(<<"S","e","r","v","e","r"," ","R","o","o","m">>),
     device_type |-> PStr(<<"W","i","d","g","e","t">>), ip_address |-> PStr(Dotted(<<8, 8, 8, 8>>)),
     mac_address |-> PStr(<<"i","n","v","a","l","i","d","-","m","a","c">>),
     subnet_mask |-> PStr(Dotted(<<255, 255, 196, 0>>)),
     default_gateway |-> Blank,
     serial_number |-> PStr(<<" ">>), notes |-> Blank,
     multicast_address_1 |-> Blank, multicast_port_1 |-> PStr(<<"8","0">>)]

RowPool == {RowGood, RowMulticast, RowBad}

\* Headers: exactly the required columns; the required columns with an
\* optional one and a multicast address and port (no label column); two
\* headers that lack required columns
HeaderRequired == REQUIRED_COLUMNS
HeaderExtended == REQUIRED_COLUMNS \o <<"notes", "multicast_address_1", "multicast_port_1">>
HeaderMissing == <<"job_id", "job_property", "device_name", "device_locations",
                   "ip_address", "mac_address", "subnet_mask", "default_gateway">>
HeaderTwo == <<"job_id", "ip_address">>
Headers == {HeaderRequired, HeaderExtended, HeaderMissing, HeaderTwo}

ColumnSet(columns) == {columns[k] : k \in DOMAIN columns}
Restrict(row, columns) == [c \in ColumnSet(columns) |-> row[c]]

SeqsUpTo(S, n) == UNION {[1..k -> S] : k \in 0..n}

Unparseable == [kind |-> "unparseable", columns |-> <<>>, rows |-> <<>>]
Table(columns, rows) ==
    [kind |-> "table", columns |-> columns,
     rows |-> [i \in DOMAIN rows |-> Restrict(rows[i], columns)]]

\* The files handed to load_and_validate
Inputs ==
    {Unparseable} \cup {Table(h, rows) : h \in Headers, rows \in SeqsUpTo(RowPool, MaxRows)}

\* Rows for the blank-field checks: RowGood with each of the six fields that
\* has a format check kept, left empty in the file (NaN) or holding a space
FormatFields == {"job_id", "ip_address", "subnet_mask", "default_gateway",
                 "mac_address", "serial_number"}
CellAs(how, cell) ==
    CASE how = "kept" -> cell
      [] how = "empty" -> Blank
      [] OTHER -> PStr(<<" ">>)
RowsWithBlanks ==
    {[c \in DOMAIN RowGood |-> IF c \in FormatFields THEN CellAs(how[c], RowGood[c])
                                ELSE RowGood[c]] :
        how \in [FormatFields -> {"kept", "empty", "space"}]}

\* such a row alone, or as the second data row after RowBad
BlankFieldTables ==
    {Table(HeaderRequired, <<row>>) : row \in RowsWithBlanks}
    \cup {Table(HeaderExtended, <<RowBad, row>>) : row \in RowsWithBlanks}

(***************************************************************************)
(* load_and_validate                                                       *)
(***************************************************************************)
\* pd.read_csv(csv_path): raises, or yields the parsed table (blank cells NaN)
read_csv(csv) ==
    IF csv.kind = "table" THEN [ok |-> TRUE, df |-> DataFrame(csv.columns, csv.rows)]
    ELSE [ok |-> FALSE, df |-> NoDf]

\* A column check that reports only the first missing column
MissingColumns_FirstOnly(columns) ==
    LET absent(col) == ~InList(col, columns)
        all == SelectSeq(REQUIRED_COLUMNS, absent)
    IN  IF all = <<>> THEN all ELSE <<all[1]>>

\* [col for col in REQUIRED_COLUMNS if col not in df.columns]
MissingColumns(columns) ==
    LET absent(col) == ~InList(col, columns)
    IN  SelectSeq(REQUIRED_COLUMNS, absent)

\* for col in OPTIONAL_COLUMNS: if col not in df.columns: df[col] = ""
RECURSIVE AddOptional(_, _)
AddOptional(frame, k) ==
    IF k > Len(OPTIONAL_COLUMNS) THEN frame
    ELSE LET col == OPTIONAL_COLUMNS[k]
         IN  IF InList(col, frame.columns) THEN AddOptional(frame, k + 1)
             ELSE AddOptional(
                    DataFrame(Append(frame.columns, col),
                              [i \in DOMAIN frame.rows |->
                                  [c \in DOMAIN frame.rows[i] \cup {col} |->
                                      IF c = col THEN PStr(<<>>) ELSE frame.rows[i][c]]]),
                    k + 1)

\* df.fillna("")
fillna(frame) ==
    DataFrame(frame.columns,
              [i \in DOMAIN frame.rows |->
                  [c \in DOMAIN frame.rows[i] |->
                      IF IsNa(frame.rows[i][c]) THEN PStr(<<>>) ELSE frame.rows[i][c]]])

\* "for col in REQUIRED_COLUMNS: if pd.isna(row[col]) or str(row[col]).strip() == ''"
IsBlank(cell) == IsNa(cell) \/ Strip(PyStr(cell)) = <<>>
RequiredErrors(row, idx) ==
    LET blank(col) == IsBlank(row[col])
        cols == SelectSeq(REQUIRED_COLUMNS, blank)
    IN  [k \in DOMAIN cols |-> RowError(idx + 2, cols[k], "is required")]

\* the three fields checked by validate_ip, in the loop's order
IpErrors(row, idx) ==
    LET fields == <<"ip_address", "subnet_mask", "default_gateway">>
        bad(field) == ~Holds(validate_ip(PStr(PyStr(row[field]))))
        cols == SelectSeq(fields, bad)
    IN  [k \in DOMAIN cols |-> RowError(idx + 2, cols[k], "Invalid IPv4 address")]

DeviceTypeErrors(row, idx) ==
    LET dt == PyStr(row["device_type"])
    IN  IF dt # <<>> /\ ~InList(dt, DEVICE_TYPES)
        THEN <<RowError(idx + 2, "device_type", "must be one of")>>
        ELSE <<>>

\* The field checks of the row loop, in the loop's order (lines 180-203)
FormatErrors(row, idx) ==
    (IF ~Holds(validate_job_id(PStr(PyStr(row["job_id"]))))
     THEN <<RowError(idx + 2, "job_id", "must be JXXXX or JXXXX-XX format")>> ELSE <<>>)
    \o IpErrors(row, idx)
    \o (IF ~Holds(validate_subnet_mask(PStr(PyStr(row["subnet_mask"]))))
        THEN <<RowError(idx + 2, "subnet_mask", "Invalid subnet mask address")>> ELSE <<>>)
    \o (IF ~Holds(validate_mac(PStr(PyStr(row["mac_address"]))))
        THEN <<RowError(idx + 2, "mac_address", "Invalid MAC address")>> ELSE <<>>)
    \o (IF ~Holds(validate_serial_number(row["serial_number"]))
        THEN <<RowError(idx + 2, "serial_number", "required")>> ELSE <<>>)
    \o DeviceTypeErrors(row, idx)

\* A row loop that goes on to the next row once a required field is blank
RequiredElseFormat(required, row, idx) ==
    IF required # <<>> THEN required ELSE FormatErrors(row, idx)
RowErrors_SkipAfterRequired(row, idx) ==
    RequiredElseFormat(RequiredErrors(row, idx), row, idx)

\* The body of the row loop: row_errors of the row at index idx (0-based)
RowErrors(row, idx) == RequiredErrors(row, idx) \o FormatErrors(row, idx)

\* "if row_errors: self.errors.extend(row_errors); valid = False"
Accumulate(acc, row_errors) ==
    IF row_errors # <<>>
    THEN [errors |-> acc.errors \o row_errors, valid |-> FALSE]
    ELSE acc

\* A row loop that breaks at the first row with errors
RECURSIVE ValidateRows_StopAtFirstError(_, _, _)
ValidateRows_StopAtFirstError(frame, k, acc) ==
    IF k > Len(frame.rows) \/ ~acc.valid THEN acc
    ELSE ValidateRows_StopAtFirstError(frame, k + 1,
                                       Accumulate(acc, RowErrors(frame.rows[k], k - 1)))

\* "for idx, row in df.iterrows()": from row k on, with the errors and the
\* valid flag accumulated so far
RECURSIVE ValidateRows(_, _, _)
ValidateRows(frame, k, acc) ==
    IF k > Len(frame.rows) THEN acc
    ELSE ValidateRows(frame, k + 1, Accumulate(acc, RowErrors(frame.rows[k], k - 1)))

\* A commit that ignores the valid flag
Commit_Always(old, frame, valid) == frame

\* A commit that appends to the dataset already held when the columns agree
Commit_Append(old, frame, valid) ==
    IF valid
    THEN DataFrame(frame.columns,
                   (IF old.present /\ old.columns = frame.columns THEN old.rows ELSE <<>>)
                   \o frame.rows)
    ELSE old

\* "if valid: self.df = df"
Commit(old, frame, valid) == IF valid THEN frame ELSE old

\* the three ways load_and_validate ends, before it assigns to self
ReadFailed == [step |-> "read", frame |-> NoDf, errors |-> <<ReadError>>, valid |-> FALSE]
ColumnsMissing(missing) ==
    [step |-> "columns", frame |-> NoDf, errors |-> <<MissingError(missing)>>, valid |-> FALSE]
RowsChecked(frame, done) ==
    [step |-> "rows", frame |-> frame, errors |-> done.errors, valid |-> done.valid]

\* lines 164-209: backfill, fillna and the row loop, with self.errors = []
\* and valid = True at its start
CheckRows(frame) ==
    RowsChecked(frame, ValidateRows(frame, 1, [errors |-> <<>>, valid |-> TRUE]))

\* lines 158-162: the column check, and the early return it takes
CheckColumns(parsed, missing) ==
    IF missing # <<>> THEN ColumnsMissing(missing)
    ELSE CheckRows(fillna(AddOptional(parsed, 1)))

\* What load_and_validate computes from the file alone (lines 150-209),
\* before it assigns to self.df
ValidateParsed(parsed) ==
    IF ~parsed.ok THEN ReadFailed
    ELSE CheckColumns(parsed.df, MissingColumns(parsed.df.columns))

Validate(csv_path) == ValidateParsed(read_csv(csv_path))

\* Validate, evaluated once per input file
Validated == [csv_path \in Inputs |-> Validate(csv_path)]

\* The assignments load_and_validate makes to self and the ValidationResult
\* it returns.  A file that cannot be read returns before self.errors is
\* reset; missing columns return after the reset and before the row loop;
\* self.df is assigned only on the last line.
Assign(self, v) ==
    CASE v.step = "read" ->
            [df |-> self.df, errors |-> self.errors,
             result |-> ValidationResult(FALSE, v.errors)]
      [] v.step = "columns" ->
            [df |-> self.df, errors |-> v.errors,
             result |-> ValidationResult(FALSE, v.errors)]
      [] OTHER ->
            [df |-> Commit(self.df, v.frame, v.valid), errors |-> v.errors,
             result |-> ValidationResult(v.valid, v.errors)]

\* DeviceInventory.load_and_validate
load_and_validate(self, csv_path) == Assign(self, Validated[csv_path])

(***************************************************************************)
(* View projections                                                        *)
(***************************************************************************)
get_ips(frame) ==
    IF frame.present
    THEN [i \in DOMAIN frame.rows |-> PyStr(frame.rows[i]["ip_address"])]
    ELSE <<>>

get_ips_with_names(frame) ==
    IF ~frame.present THEN <<>>
    ELSE [i \in DOMAIN frame.rows |->
            [ip |-> PyStr(frame.rows[i]["ip_address"]),
             device |-> PyStr(frame.rows[i]["job_id"]) \o <<" ", "-", " ">>
                        \o PyStr(frame.rows[i]["device_name"]) \o <<" ", "(">>
                        \o PyStr(frame.rows[i]["device_location"]) \o <<")">>]]

get_ips_with_details(frame) ==
    IF ~frame.present THEN <<>>
    ELSE [i \in DOMAIN frame.rows |->
            [job_id |-> PyStr(frame.rows[i]["job_id"]),
             device |-> IF Strip(PyStr(frame.rows[i]["device_name"])) # <<>>
                        THEN Strip(PyStr(frame.rows[i]["device_name"]))
                        ELSE <<"U","n","n","a","m","e","d">>,
             ip |-> PyStr(frame.rows[i]["ip_address"]),
             location |-> Strip(PyStr(frame.rows[i]["device_location"])),
             type |-> Strip(PyStr(frame.rows[i]["device_type"]))]]

DisplayColumns == <<"job_property", "device_name", "device_location", "device_type",
                    "ip_address", "mac_address", "subnet_mask", "default_gateway",
                    "serial_number">>

get_display_df(frame) ==
    IF ~frame.present THEN DataFrame(<<>>, <<>>)
    ELSE DataFrame(DisplayColumns,
                   [i \in DOMAIN frame.rows |->
                       [c \in {DisplayColumns[k] : k \in DOMAIN DisplayColumns} |->
                           frame.rows[i][c]]])

\* df.to_csv(index=False): the header line and one line of str(cell) per row;
\* EmptyText is the empty string
CsvText(header, lines) == [empty |-> FALSE, header |-> header, lines |-> lines]
EmptyText == [empty |-> TRUE, header |-> <<>>, lines |-> <<>>]
export_troubleshoot_csv(frame) ==
    IF ~frame.present THEN EmptyText
    ELSE CsvText(frame.columns,
                 [i \in DOMAIN frame.rows |->
                     [k \in DOMAIN frame.columns |-> PyStr(frame.rows[i][frame.columns[k]])]])


(***************************************************************************)
(* The inventory as a state machine                                        *)
(***************************************************************************)
\* DeviceInventory() with no csv_path
Init ==
    /\ df = NoDf
    /\ errors = <<>>
    /\ result = NoResult
    /\ lastInput = Unparseable
    /\ repeat = FALSE
    /\ arg = PNone
    /\ fn = "none"
    /\ ret = Return(FALSE)

\* inventory.load_and_validate(csv_path)
Returned(after, csv_path) ==
    /\ df' = after.df
    /\ errors' = after.errors
    /\ result' = after.result
    /\ lastInput' = csv_path
    /\ repeat' = (result.called /\ csv_path = lastInput)
    /\ UNCHANGED <<arg, fn, ret>>

Load(csv_path) ==
    Returned(load_and_validate([df |-> df, errors |-> errors], csv_path), csv_path)

Next == \E csv_path \in Inputs : Load(csv_path)

Spec == Init /\ [][Next]_vars

(***************************************************************************)
(* The field validators, each applied to one value                         *)
(***************************************************************************)
ValInit ==
    /\ df = NoDf
    /\ errors = <<>>
    /\ result = NoResult
    /\ lastInput = Unparseable
    /\ repeat = FALSE
    /\ arg \in ValidatorInputs
    /\ fn = "none"
    /\ ret = Return(FALSE)

Called(name, outcome) ==
    /\ fn = "none"
    /\ fn' = name
    /\ ret' = outcome
    /\ UNCHANGED <<df, errors, result, lastInput, repeat, arg>>

CallValidateJobId == Called("validate_job_id", validate_job_id(arg))
CallValidateIp == Called("validate_ip", validate_ip(arg))
CallValidateSubnetMask == Called("validate_subnet_mask", validate_subnet_mask(arg))
CallValidateMac == Called("validate_mac", validate_mac(arg))
CallValidateMulticastAddress == Called("validate_multicast_address", validate_multicast_address(arg))
CallValidateMulticastPort == Called("validate_multicast_port", validate_multicast_port(arg))
CallValidateSerialNumber == Called("validate_serial_number", validate_serial_number(arg))

ValNext ==
    \/ CallValidateJobId
    \/ CallValidateIp
    \/ CallValidateSubnetMask
    \/ CallValidateMac
    \/ CallValidateMulticastAddress
    \/ CallValidateMulticastPort
    \/ CallValidateSerialNumber

ValSpec == ValInit /\ [][ValNext]_vars

(***************************************************************************)
(* One load of a table with blank fields into a new inventory              *)
(***************************************************************************)
LoadBlankFields(csv_path) ==
    /\ ~result.called
    /\ Returned(Assign([df |-> df, errors |-> errors], Validate(csv_path)), csv_path)

BlankNext == \E csv_path \in BlankFieldTables : LoadBlankFields(csv_path)

BlankSpec == Init /\ [][BlankNext]_vars


(***************************************************************************)
(* Properties                                                              *)
(***************************************************************************)
RequiredSet == ColumnSet(REQUIRED_COLUMNS)
HasAllRequired(csv) == csv.kind = "table" /\ RequiredSet \subseteq ColumnSet(csv.columns)
LacksRequired(csv) == csv.kind = "table" /\ ~(RequiredSet \subseteq ColumnSet(csv.columns))
IndexIn(list, x) == CHOOSE k \in DOMAIN list : list[k] = x

\* Every projection of the inventory's current dataset
Projections ==
    [ips |-> get_ips(df), names |-> get_ips_with_names(df),
     details |-> get_ips_with_details(df), display |-> get_display_df(df),
     csv |-> export_troubleshoot_csv(df)]

\* C1: after every load_and_validate call the inventory is never in a mixed
\* state: either the dataset is present and the stored errors are empty, or
\* the dataset is absent and the stored errors are non-empty.
C1_NeverMixed ==
    result.called =>
        \/ df.present /\ errors = <<>>
        \/ ~df.present /\ errors # <<>>

\* C2: whenever the last load_and_validate call returned valid=false, or no
\* call was made, the dataset is absent and every projection returns its
\* empty value, whatever calls preceded.
C2_FailedLoadLeavesNothing ==
    (~result.called \/ ~result.valid) =>
        /\ ~df.present
        /\ get_ips(df) = <<>>
        /\ get_ips_with_names(df) = <<>>
        /\ get_ips_with_details(df) = <<>>
        /\ export_troubleshoot_csv(df) = EmptyText

\* C3: after every call the stored errors are exactly the errors the call
\* returned; a file that cannot be parsed returns valid=false with exactly
\* one error describing the parse failure, and that error is what is stored.
C3_StoredErrorsAreCallErrors ==
    result.called =>
        /\ errors = result.errors
        /\ lastInput.kind = "unparseable" =>
              /\ ~result.valid
              /\ Len(result.errors) = 1
              /\ result.errors[1].kind = "read"

LoopFrame(csv) == fillna(AddOptional(read_csv(csv).df, 1))
ErrorsOfRow(errs, n) == LET tagged(e) == e.row = n IN SelectSeq(errs, tagged)

\* the errors tagged "Row i+1" are exactly the i-th row's own errors
RowAgrees(errs, own, i) ==
    /\ ErrorsOfRow(errs, i + 1) = own
    /\ \A k \in DOMAIN own : own[k].row = i + 1

\* C5: for a table with all required columns the returned errors are the
\* concatenation, in row order, of each row's own errors: every row is
\* checked, an earlier row's errors never suppress a later row's, and the
\* messages of the i-th data row are prefixed "Row i+1".
C5_AllRowsInOrder ==
    (result.called /\ HasAllRequired(lastInput)) =>
        LET frame == LoopFrame(lastInput)
            n == Len(frame.rows)
        IN  /\ n = Len(lastInput.rows)
            /\ \A k \in DOMAIN result.errors :
                  result.errors[k].kind = "row" /\ result.errors[k].row \in 2..(n + 1)
            /\ \A a, b \in DOMAIN result.errors :
                  a < b => result.errors[a].row <= result.errors[b].row
            /\ \A i \in 1..n :
                  RowAgrees(result.errors, RowErrors(frame.rows[i], i - 1), i)

\* a table whose first and second data rows both have errors was loaded
C5_Witness ==
    /\ result.called
    /\ HasAllRequired(lastInput)
    /\ Len(lastInput.rows) >= 2
    /\ ErrorsOfRow(result.errors, 2) # <<>>
    /\ ErrorsOfRow(result.errors, 3) # <<>>

\* every check the row loop applies, on one row of a stored dataset
RowPassesChecks(row) ==
    /\ \A col \in RequiredSet : ~IsBlank(row[col])
    /\ MatchJobId(Upper(Strip(PyStr(row["job_id"]))))
    /\ Holds(validate_ip(PStr(PyStr(row["ip_address"]))))
    /\ Holds(validate_ip(PStr(PyStr(row["default_gateway"]))))
    /\ Holds(validate_subnet_mask(PStr(PyStr(row["subnet_mask"]))))
    /\ Holds(validate_mac(PStr(PyStr(row["mac_address"]))))
    /\ Strip(PyStr(row["serial_number"])) # <<>>
    /\ InList(PyStr(row["device_type"]), DEVICE_TYPES)

\* C6: whenever the inventory holds a dataset, every row of it passes every
\* check of the row loop; and the dataset changes only in a call that
\* returned valid=true with no errors.
C6_StoredRowsPassChecks ==
    /\ [](df.present => \A i \in DOMAIN df.rows : RowPassesChecks(df.rows[i]))
    /\ [][df' # df => (result'.valid /\ result'.errors = <<>> /\ df'.present)]_vars

\* a dataset of MaxRows rows is held
C6_Witness == df.present /\ Len(df.rows) = MaxRows /\ result.valid

\* the port check as the claims word it: the value converts to an integer n
\* with 1025 <= n <= 65000
ParsesAsInt(s) ==
    LET body == IF s # <<>> /\ s[1] \in {"+", "-"} THEN Tail(s) ELSE s
    IN  IsDigitStr(body) /\ Len(body) <= 9
IntOf(s) == IF s[1] = "-" THEN 0 - ToInt(Tail(s))
            ELSE IF s[1] = "+" THEN ToInt(Tail(s)) ELSE ToInt(s)
PortInRange(value) ==
    CASE value.t = "int" -> value.n >= 1025 /\ value.n <= 65000
      [] value.t = "str" ->
            LET s == Strip(value.s)
            IN  ParsesAsInt(s) /\ IntOf(s) >= 1025 /\ IntOf(s) <= 65000
      [] OTHER -> FALSE

MulticastColumns == {"multicast_address_1", "multicast_port_1", "multicast_label_1"}
FieldBlank(row, col) == col \notin DOMAIN row \/ IsBlank(row[col])
\* a non-blank multicast address whose own check or paired check fails
MulticastCheckFails(row) ==
    /\ ~FieldBlank(row, "multicast_address_1")
    /\ \/ ~Holds(validate_multicast_address(PStr(PyStr(row["multicast_address_1"]))))
       \/ FieldBlank(row, "multicast_port_1")
       \/ ~PortInRange(row["multicast_port_1"])
       \/ FieldBlank(row, "multicast_label_1")
       \/ ~InList(PyStr(row["multicast_label_1"]), MULTICAST_LABELS)

\* C7: a row gets an error about multicast_address_1, multicast_port_1 or
\* multicast_label_1 if and only if its multicast address is non-blank and
\* one of the paired checks fails; such a row makes the call return
\* valid=false, and a row with a blank multicast address gets no such error.
C7_MulticastChecked ==
    (result.called /\ HasAllRequired(lastInput)) =>
        \A i \in DOMAIN lastInput.rows :
            /\ (\E k \in DOMAIN result.errors :
                    result.errors[k].row = i + 1 /\ result.errors[k].col \in MulticastColumns)
               <=> MulticastCheckFails(lastInput.rows[i])
            /\ MulticastCheckFails(lastInput.rows[i]) => ~result.valid

\* C8: calling load_and_validate again with the same valid input returns the
\* same ValidationResult and leaves every projection as the first call left
\* it, whatever calls preceded.
C8_Idempotent ==
    [][(result.called /\ result.valid /\ lastInput' = lastInput)
        => (result' = result /\ result'.valid /\ result'.errors = <<>>
            /\ Projections' = Projections)]_vars

\* a valid table of MaxRows rows was loaded twice in a row
C8_Witness ==
    /\ repeat
    /\ result.valid
    /\ df.present
    /\ Len(df.rows) = MaxRows
    /\ errors = <<>>

ListedValidators == {"validate_job_id", "validate_ip", "validate_subnet_mask",
                     "validate_mac", "validate_multicast_address",
                     "validate_serial_number"}

\* C9: every field validator is total: on every value, string or not, it
\* returns a boolean and never raises.
C9_ValidatorsTotal == fn \in ListedValidators => ret.exc = "none"

\* the four ranges C10 names
InClaimedRanges(addr) ==
    \/ addr[1] = 10
    \/ addr[1] = 172 /\ addr[2] >= 16 /\ addr[2] <= 31
    \/ addr[1] = 192 /\ addr[2] = 168
    \/ addr[1] = 127

\* C10: validate_ip is true if and only if the value parses as a dotted
\* quad with octets 0..255 and lies in 10.0.0.0/8, 172.16.0.0/12,
\* 192.168.0.0/16 or 127.0.0.0/8; every other address is false.
C10_PrivateRangesOnly ==
    (fn = "validate_ip" /\ arg.t = "str") =>
        /\ ret.exc = "none"
        /\ ret.val <=> (IpFromString(arg.s).ok /\ InClaimedRanges(IpFromString(arg.s).addr))

\* a four-octet dotted-decimal string whose 32 bits are a run of 1-bits
\* followed only by 0-bits
IsDottedNetmask(v) ==
    /\ v.t = "str"
    /\ IpFromString(v.s).ok
    /\ ContiguousOnes(AddrBits(IpFromString(v.s).addr))

\* C11: validate_subnet_mask(value) is true if and only if value is a
\* four-octet dotted-decimal string whose bits form a contiguous network
\* mask; it is false for non-contiguous patterns, malformed octets, host
\* masks such as 0.0.0.255, bare prefix lengths such as 24, and empty or
\* non-string input.
C11_DottedNetmaskOnly ==
    fn = "validate_subnet_mask" =>
        /\ ret.exc = "none"
        /\ ret.val <=> IsDottedNetmask(arg)

\* C12: the core exposes validate_multicast_port(value); it is true if and
\* only if value converts to an integer n with 1025 <= n <= 65000 (1024 and
\* 65001 false, 1025 and 65000 true, '1025' accepted), and it is false
\* without raising for non-numeric input such as 'abc' or None.
C12_PortRange ==
    fn = "validate_multicast_port" =>
        /\ ret.exc = "none"
        /\ ret.val <=> PortInRange(arg)

\* the message of the format check of each field that has one
FormatMessage(col) ==
    CASE col = "job_id" -> "must be JXXXX or JXXXX-XX format"
      [] col = "subnet_mask" -> "Invalid subnet mask address"
      [] col = "mac_address" -> "Invalid MAC address"
      [] col = "serial_number" -> "required"
      [] OTHER -> "Invalid IPv4 address"
Contains(errs, e) == \E k \in DOMAIN errs : errs[k] = e

\* the errors of one row: both messages for every blank field, and the
\* "is required" messages before all others
BlankFieldsReported(row, own, n) ==
    /\ \A col \in FormatFields :
          IsBlank(row[col]) =>
              /\ Contains(own, RowError(n, col, "is required"))
              /\ Contains(own, RowError(n, col, FormatMessage(col)))
    /\ \A a, b \in DOMAIN own :
          (own[a].text = "is required" /\ own[b].text # "is required") => a < b

\* C13: required-field blankness and the field's format check are
\* independent and not deduplicated: for every row in which job_id,
\* ip_address, subnet_mask, default_gateway, mac_address or serial_number is
\* blank, the row's errors contain both the "<column> is required" message
\* and that field's format-error message, and the row's "is required"
\* messages precede all of its format-error messages.
C13_BlankReportedTwice ==
    (result.called /\ HasAllRequired(lastInput)) =>
        \A i \in DOMAIN lastInput.rows :
            BlankFieldsReported(lastInput.rows[i], ErrorsOfRow(result.errors, i + 1), i + 1)

\* a table was loaded whose second data row has all six fields blank, some
\* empty and some holding a space, and the call reported mac_address twice
C13_Witness ==
    /\ result.called
    /\ Len(lastInput.rows) = 2
    /\ \A col \in FormatFields : IsBlank(lastInput.rows[2][col])
    /\ IsNa(lastInput.rows[2]["mac_address"])
    /\ lastInput.rows[2]["ip_address"] = PStr(<<" ">>)
    /\ Contains(result.errors, RowError(3, "mac_address", "is required"))
    /\ Contains(result.errors, RowError(3, "mac_address", "Invalid MAC address"))

====
